---- MODULE Spec2Model ----
(***************************************************************************)
(* The CalcLang scanner of src/src/scanner.rs as a state machine.          *)
(*                                                                         *)
(* A Scanner owns an input string, an output vector of tokens and a        *)
(* ScannerState.  scan() walks a peekable iterator over the characters of  *)
(* the input; every iteration of its `while let` loop takes one character  *)
(* and matches it, the 'q' arm peeks ahead for "quit" and the digit arm    *)
(* runs an inner loop that accumulates a number.                           *)
(***************************************************************************)
EXTENDS Integers, Sequences, FiniteSets, TLC

VARIABLES
    input,      \* Scanner.input, as a sequence of characters
    output,     \* Scanner.output, the token vector
    state,      \* Scanner.state
    pc,         \* where the caller/scan is: "new", "while", "loop", "returned",
                \* or "panicked" once the thread has panicked
    pos,        \* number of characters the iterator `chars` has yielded
    number,     \* local `number` of the digit arm
    current,    \* local `current` of the digit arm
    calls,      \* how many times scan() has been invoked on this Scanner
    view,       \* what the caller's live borrow from output() shows, if any
    overflowChecks  \* what the run has shown of the build: "on", "off", or
                    \* "undetermined" as long as no arithmetic overflowed

vars ==
    <<input, output, state, pc, pos, number, current, calls, view,
      overflowChecks>>

----------------------------------------------------------------------------
(* Bounds of the model.                                                    *)

\* longest input enumerated exhaustively over Alphabet
MaxLen == 4
\* scan() invocations on one Scanner
MaxScans == 2

----------------------------------------------------------------------------
(* Characters.  A character is a one-character string; Ord gives its code  *)
(* point, which is what the range patterns and the `as u8` casts read.     *)

Ord ==
    ("+" :> 43) @@ ("-" :> 45) @@ ("*" :> 42) @@ ("/" :> 47) @@ ("%" :> 37) @@
    ("^" :> 94) @@ ("=" :> 61) @@ (";" :> 59) @@
    (" " :> 32) @@ ("\r" :> 13) @@ ("\n" :> 10) @@ ("\t" :> 9) @@
    ("a" :> 97) @@ ("i" :> 105) @@ ("q" :> 113) @@ ("s" :> 115) @@
    ("t" :> 116) @@ ("u" :> 117) @@ ("x" :> 120) @@ ("z" :> 122) @@
    ("0" :> 48) @@ ("1" :> 49) @@ ("2" :> 50) @@ ("3" :> 51) @@ ("4" :> 52) @@
    ("5" :> 53) @@ ("6" :> 54) @@ ("7" :> 55) @@ ("8" :> 56) @@ ("9" :> 57) @@
    ("#" :> 35) @@ ("A" :> 65) @@ ("Q" :> 81) @@ ("U" :> 85) @@ ("I" :> 73) @@
    ("T" :> 84) @@ (":" :> 58) @@ ("_" :> 95) @@ ("{" :> 123)

\* every character the model knows
Chars == DOMAIN Ord

\* the characters of the exhaustively enumerated inputs
Alphabet == {"q", "u", "i", "t", "3", "+", " "}

----------------------------------------------------------------------------
(* Tokens: enum Token.  Every token is a record of the same shape; ch and  *)
(* value carry the data of the variants that have some.                    *)

NoData == ""

\* An i64 is its 64 bits, held as four 16-bit limbs, the lowest first.
\* I64(n) is the i64 of a small natural number n.
I64(n) == <<n % 65536, (n \div 65536) % 65536, 0, 0>>

Unit(kind) == [kind |-> kind, ch |-> NoData, value |-> I64(0)]

Integer(n) == [kind |-> "Integer", ch |-> NoData, value |-> n]
Addition == Unit("Addition")
Subtraction == Unit("Subtraction")
Multiplication == Unit("Multiplication")
Division == Unit("Division")
Modulus == Unit("Modulus")
Exponent == Unit("Exponent")
Assignment == Unit("Assignment")
Terminator == Unit("Terminator")
Quit == Unit("Quit")
Variable(c) == [kind |-> "Variable", ch |-> c, value |-> I64(0)]
Unknown(c) == [kind |-> "Unknown", ch |-> c, value |-> I64(0)]

\* enum ScannerState
ScannerState == {"Idle", "CharMode", "IntMode", "QuitMode", "Done"}

----------------------------------------------------------------------------
(* Option<T> is a sequence of at most one element.                         *)

None == <<>>
Some(x) == <<x>>

\* chars.peek() of an iterator that has yielded p characters of inp
Peek(inp, p) == IF p < Len(inp) THEN Some(inp[p + 1]) ELSE None

----------------------------------------------------------------------------
(* The arms of `match c`, in the order the patterns are tried.             *)

OperatorChars == {"+", "-", "*", "/", "%", "^", "=", ";"}
WhitespaceChars == {" ", "\r", "\n", "\t"}

\* IsLower with the upper end of the range one too far
IsLowerPastZ(c) == Ord["a"] <= Ord[c] /\ Ord[c] <= Ord["z"] + 1

\* 'a'...'z'
IsLower(c) == Ord["a"] <= Ord[c] /\ Ord[c] <= Ord["z"]

\* '0'...'9', and the guard '0' <= next && next <= '9'
IsDigit(c) == Ord["0"] <= Ord[c] /\ Ord[c] <= Ord["9"]

Classify(c) ==
    IF c \in OperatorChars THEN "operator"
    ELSE IF c \in WhitespaceChars THEN "whitespace"
    ELSE IF c = "q" THEN "q"
    ELSE IF IsLower(c) THEN "letter"
    ELSE IF IsDigit(c) THEN "digit"
    ELSE "unknown"

\* OperatorToken with the tokens of '/' and '%' exchanged
OperatorTokenSwapped(c) ==
    CASE c = "+" -> Addition
      [] c = "-" -> Subtraction
      [] c = "*" -> Multiplication
      [] c = "/" -> Modulus
      [] c = "%" -> Division
      [] c = "^" -> Exponent
      [] c = "=" -> Assignment
      [] c = ";" -> Terminator

OperatorToken(c) ==
    CASE c = "+" -> Addition
      [] c = "-" -> Subtraction
      [] c = "*" -> Multiplication
      [] c = "/" -> Division
      [] c = "%" -> Modulus
      [] c = "^" -> Exponent
      [] c = "=" -> Assignment
      [] c = ";" -> Terminator

\* QBranch that takes each character with next() before comparing it
QBranchTakesMismatch(inp, p) ==
    IF Peek(inp, p) # Some("u")
    THEN [tok |-> Some(Variable("q")), pos |-> p + Len(Peek(inp, p))]
    ELSE IF Peek(inp, p + 1) # Some("i")
         THEN [tok |-> Some(Variable("q")),
               pos |-> p + 1 + Len(Peek(inp, p + 1))]
         ELSE IF Peek(inp, p + 2) # Some("t")
              THEN [tok |-> Some(Variable("q")),
                    pos |-> p + 2 + Len(Peek(inp, p + 2))]
              ELSE [tok |-> Some(Quit), pos |-> p + 3]

\* QBranch with the chars.next() after the peek for 't' left out
QBranchKeepsT(inp, p) ==
    IF Peek(inp, p) # Some("u")
    THEN [tok |-> Some(Variable("q")), pos |-> p]
    ELSE IF Peek(inp, p + 1) # Some("i")
         THEN [tok |-> Some(Variable("q")), pos |-> p + 1]
         ELSE IF Peek(inp, p + 2) # Some("t")
              THEN [tok |-> Some(Variable("q")), pos |-> p + 2]
              ELSE [tok |-> Some(Quit), pos |-> p + 2]

\* QBranch that gives Quit at "qui", the peek for 't' left out
QBranchNoTCheck(inp, p) ==
    IF Peek(inp, p) # Some("u")
    THEN [tok |-> Some(Variable("q")), pos |-> p]
    ELSE IF Peek(inp, p + 1) # Some("i")
         THEN [tok |-> Some(Variable("q")), pos |-> p + 1]
         ELSE [tok |-> Some(Quit), pos |-> p + 2 + Len(Peek(inp, p + 2))]

\* The 'q' arm.  p characters have been yielded, the last of them the 'q'.
\* Gives the token of the arm and the number of characters yielded after it.
QBranch(inp, p) ==
    IF Peek(inp, p) # Some("u")
    THEN [tok |-> Some(Variable("q")), pos |-> p]
    ELSE \* chars.next()
         IF Peek(inp, p + 1) # Some("i")
         THEN [tok |-> Some(Variable("q")), pos |-> p + 1]
         ELSE \* chars.next()
              IF Peek(inp, p + 2) # Some("t")
              THEN [tok |-> Some(Variable("q")), pos |-> p + 2]
              ELSE \* chars.next()
                   [tok |-> Some(Quit), pos |-> p + 3]

\* current as u8
AsU8(c) == Ord[c] % 256

\* The arithmetic of i64.  Wide results are five limbs, nothing cut off.

\* x * 10, wide
WideTimes10(x) ==
    LET t1 == x[1] * 10
        t2 == x[2] * 10 + t1 \div 65536
        t3 == x[3] * 10 + t2 \div 65536
        t4 == x[4] * 10 + t3 \div 65536
    IN  <<t1 % 65536, t2 % 65536, t3 % 65536, t4 % 65536, t4 \div 65536>>

\* x + d for a small natural number d, wide
WidePlus(x, d) ==
    LET t1 == x[1] + d
        t2 == x[2] + t1 \div 65536
        t3 == x[3] + t2 \div 65536
        t4 == x[4] + t3 \div 65536
    IN  <<t1 % 65536, t2 % 65536, t3 % 65536, t4 % 65536, t4 \div 65536>>

\* the 64 bits that wrapping arithmetic keeps of a wide result
Wrap64(w) == <<w[1], w[2], w[3], w[4]>>

\* a wide result of an operation on a non-negative i64 is past i64::MAX
PastMax(w) == w[5] > 0 \/ w[4] >= 32768

\* ((current as u8) - ('0' as u8)) as i64
DigitOf(cur) == AsU8(cur) - AsU8("0")

\* Accumulate with the multiplication by ten left out
AccumulateNoShift(n, cur) == Wrap64(WidePlus(n, DigitOf(cur)))

\* number *= 10; number += ((current as u8) - ('0' as u8)) as i64
\* with wrapping arithmetic (overflow checks off)
Accumulate(n, cur) ==
    Wrap64(WidePlus(Wrap64(WideTimes10(n)), DigitOf(cur)))

\* the multiplication or the addition of Accumulate overflows i64, for a
\* number that is not negative (none is before the first overflow)
Overflows(n, cur) ==
    \/ PastMax(WideTimes10(n))
    \/ PastMax(WidePlus(Wrap64(WideTimes10(n)), DigitOf(cur)))

\* LoopBody that peeks at the next digit and does not take it
LoopBodyNoNext(inp, p, n, cur) ==
    LET acc == Accumulate(n, cur)
        ovf == Overflows(n, cur)
        next == Peek(inp, p)
    IN  IF next # None /\ IsDigit(next[1])
        THEN [number |-> acc, current |-> next[1], pos |-> p, brk |-> FALSE,
              ovf |-> ovf]
        ELSE [number |-> acc, current |-> cur, pos |-> p, brk |-> TRUE,
              ovf |-> ovf]

\* One iteration of the `loop` of the digit arm, p characters yielded.
\* ovf: its arithmetic overflows, which a build with overflow checks turns
\* into a panic and a build without them lets wrap.
LoopBody(inp, p, n, cur) ==
    LET acc == Accumulate(n, cur)
        ovf == Overflows(n, cur)
        next == Peek(inp, p)
    IN  IF next # None /\ IsDigit(next[1])
        THEN [number |-> acc, current |-> next[1], pos |-> p + 1,
              brk |-> FALSE, ovf |-> ovf]
        ELSE [number |-> acc, current |-> cur, pos |-> p, brk |-> TRUE,
              ovf |-> ovf]

\* The whole `loop` of the digit arm, overflow checks off.
RECURSIVE DigitLoop(_, _, _, _)
DigitLoop(inp, p, n, cur) ==
    LET b == LoopBody(inp, p, n, cur)
    IN  IF b.brk THEN b ELSE DigitLoop(inp, b.pos, b.number, b.current)

\* One iteration of `while let Some(c) = chars.next()`, p characters yielded
\* before it: the token of `tok` and the characters yielded after it.
Iteration(inp, p) ==
    LET c == inp[p + 1]
        k == Classify(c)
    IN  CASE k = "operator" -> [tok |-> Some(OperatorToken(c)), pos |-> p + 1]
          [] k = "whitespace" -> [tok |-> None, pos |-> p + 1]
          [] k = "q" -> QBranch(inp, p + 1)
          [] k = "letter" -> [tok |-> Some(Variable(c)), pos |-> p + 1]
          [] k = "digit" ->
                LET b == DigitLoop(inp, p + 1, I64(0), c)
                IN  [tok |-> Some(Integer(b.number)), pos |-> b.pos]
          [] k = "unknown" -> [tok |-> Some(Unknown(c)), pos |-> p + 1]

\* Push with the push written twice
PushTwice(out, tok) == out \o tok \o tok

\* Push that puts the token in front
PushFront(out, tok) == tok \o out

\* if tok.is_some() { self.output.push(tok.unwrap()) }
Push(out, tok) == out \o tok

\* What one scan() appends to the output, from p characters yielded on,
\* overflow checks off.
RECURSIVE ScanTokens(_, _)
ScanTokens(inp, p) ==
    IF p >= Len(inp) THEN <<>>
    ELSE LET it == Iteration(inp, p)
         IN  Push(<<>>, it.tok) \o ScanTokens(inp, it.pos)

----------------------------------------------------------------------------
(* The inputs.                                                             *)

RECURSIVE SeqsUpTo(_, _)
SeqsUpTo(S, n) ==
    IF n = 0 THEN {<<>>}
    ELSE LET shorter == SeqsUpTo(S, n - 1)
         IN  shorter \cup {Append(s, x) : s \in shorter, x \in S}

\* every known character alone and with every neighbour of Alphabet
Framed ==
    {<<c>> : c \in Chars}
        \cup {<<l, c>> : l \in Alphabet, c \in Chars}
        \cup {<<c, r>> : c \in Chars, r \in Alphabet}
        \cup {<<l, c, r>> : l \in Alphabet, c \in Chars, r \in Alphabet}

\* the program of main() and the inputs the documentation works through
MainProgram ==
    <<"+", " ", "-", " ", "3", "4", " ", ";", " ", "q", "u", "i", "t", " ",
      "a", " ", "3", " ", "3", " ", "-", " ", "-", " ", "1", " ", "*", " ",
      "^", " ", "7">>

\* literals at and past the end of i64: 2^63 - 1, 2^63, 2^64, 2^64 + 5 and
\* 10^20 - 1
I64Max ==
    <<"9", "2", "2", "3", "3", "7", "2", "0", "3", "6", "8", "5", "4", "7",
      "7", "5", "8", "0", "7">>
I64MaxPlus1 ==
    <<"9", "2", "2", "3", "3", "7", "2", "0", "3", "6", "8", "5", "4", "7",
      "7", "5", "8", "0", "8">>
TwoTo64 ==
    <<"1", "8", "4", "4", "6", "7", "4", "4", "0", "7", "3", "7", "0", "9",
      "5", "5", "1", "6", "1", "6">>
TwoTo64Plus5 ==
    <<"1", "8", "4", "4", "6", "7", "4", "4", "0", "7", "3", "7", "0", "9",
      "5", "5", "1", "6", "2", "1">>
TwentyNines ==
    <<"9", "9", "9", "9", "9", "9", "9", "9", "9", "9", "9", "9", "9", "9",
      "9", "9", "9", "9", "9", "9">>

Examples ==
    { MainProgram,
      <<"1", "2", "3">>,
      <<"q", "u", "i", "t", "s">>,
      <<"+", "-", "*", "/", "%", "^", "=", ";">>,
      <<"3", "+", "3">>,
      <<" ", "a", " ">>,
      <<"q", "u", "q", "u", "i", "t">>,
      <<"q", "u", "i", "q", "u", "i", "t">>,
      <<"a", "q", "u", "i", "t", "3">>,
      <<"0", "0", "7", "\t", "1", "2", "\n", "9">>,
      <<"a", "#", "{", "Q", " ", "3">>,
      <<"Q", "U", "I", "T">>,
      <<"Q", "u", "i", "t">>,
      <<"q", "u", " ", "i", "t">>,
      I64Max, I64MaxPlus1, TwoTo64, TwoTo64Plus5 \o <<"+">>, TwentyNines }

Inputs == SeqsUpTo(Alphabet, MaxLen) \cup Framed \cup Examples

----------------------------------------------------------------------------
(* The state machine.                                                      *)

NoCurrent == ""

\* Init of a constructor that scans at once
InitScansEagerly ==
    /\ input \in Inputs
    /\ output = ScanTokens(input, 0)
    /\ state = "Idle"
    /\ pc = "new"
    /\ pos = 0
    /\ number = I64(0)
    /\ current = NoCurrent
    /\ calls = 0
    /\ view = None
    /\ overflowChecks = "undetermined"

\* Scanner::new(input)
Init ==
    /\ input \in Inputs
    /\ output = <<>>
    /\ state = "Idle"
    /\ pc = "new"
    /\ pos = 0
    /\ number = I64(0)
    /\ current = NoCurrent
    /\ calls = 0
    /\ view = None
    /\ overflowChecks = "undetermined"

\* output(): the caller borrows the output vector and reads it.  It takes
\* &self, so it cannot run while scan(), which holds &mut self, does.
Output ==
    /\ pc \in {"new", "returned"}
    /\ view' = Some(output)
    /\ UNCHANGED <<input, output, state, pc, pos, number, current, calls,
                   overflowChecks>>

\* scan() is entered: the state is set and a fresh iterator is made.  It
\* takes &mut self, so no borrow from output() is alive any more.
ScanBegin ==
    /\ pc \in {"new", "returned"}
    /\ calls < MaxScans
    /\ state' = "CharMode"
    /\ pos' = 0
    /\ pc' = "while"
    /\ calls' = calls + 1
    /\ view' = None
    /\ UNCHANGED <<input, output, number, current, overflowChecks>>

\* chars.next() yields a character
AtChar == pc = "while" /\ pos < Len(input)

\* the arm of `match c` that the character chars.next() yields selects
AtArm(k) == AtChar /\ Classify(input[pos + 1]) = k

\* an arm without a loop: the whole iteration, the push included
TakeIteration ==
    /\ LET it == Iteration(input, pos)
       IN  /\ pos' = it.pos
           /\ output' = Push(output, it.tok)
    /\ UNCHANGED <<input, state, pc, number, current, calls, view,
                   overflowChecks>>

ScanOperator ==
    /\ AtArm("operator")
    /\ TakeIteration

ScanWhitespace ==
    /\ AtArm("whitespace")
    /\ TakeIteration

ScanQ ==
    /\ AtArm("q")
    /\ TakeIteration

ScanLetter ==
    /\ AtArm("letter")
    /\ TakeIteration

ScanUnknown ==
    /\ AtArm("unknown")
    /\ TakeIteration

\* the digit arm up to its `loop`
ScanDigit ==
    /\ AtArm("digit")
    /\ pos' = pos + 1
    /\ number' = I64(0)
    /\ current' = input[pos + 1]
    /\ pc' = "loop"
    /\ UNCHANGED <<input, output, state, calls, view, overflowChecks>>

\* what a run that goes on past an iteration of the `loop` has shown of
\* the build: arithmetic that overflowed without a panic was not checked
Survived(ovf) == IF ovf THEN "off" ELSE overflowChecks

\* an iteration of the `loop` that finds another digit
LoopContinue ==
    /\ pc = "loop"
    /\ LET b == LoopBody(input, pos, number, current)
       IN  /\ ~b.brk
           /\ b.ovf => overflowChecks # "on"
           /\ number' = b.number
           /\ current' = b.current
           /\ pos' = b.pos
           /\ overflowChecks' = Survived(b.ovf)
    /\ UNCHANGED <<input, output, state, pc, calls, view>>

\* the iteration of the `loop` that breaks, and the push of the Integer
LoopBreak ==
    /\ pc = "loop"
    /\ LET b == LoopBody(input, pos, number, current)
       IN  /\ b.brk
           /\ b.ovf => overflowChecks # "on"
           /\ output' = Push(output, Some(Integer(b.number)))
           /\ pos' = b.pos
           /\ overflowChecks' = Survived(b.ovf)
    /\ number' = I64(0)
    /\ current' = NoCurrent
    /\ pc' = "while"
    /\ UNCHANGED <<input, state, calls, view>>

\* an iteration of the `loop` whose arithmetic overflows in a build with
\* overflow checks (the default of a debug build): the thread panics
LoopPanic ==
    /\ pc = "loop"
    /\ LoopBody(input, pos, number, current).ovf
    /\ overflowChecks # "off"
    /\ overflowChecks' = "on"
    /\ pc' = "panicked"
    /\ UNCHANGED <<input, output, state, pos, number, current, calls, view>>

\* ScanEnd that puts the state back to Idle
ScanEndToIdle ==
    /\ pc = "while"
    /\ pos >= Len(input)
    /\ pc' = "returned"
    /\ state' = "Idle"
    /\ UNCHANGED <<input, output, pos, number, current, calls, view,
                   overflowChecks>>

\* chars.next() yields None: scan() returns
ScanEnd ==
    /\ pc = "while"
    /\ pos >= Len(input)
    /\ pc' = "returned"
    /\ UNCHANGED <<input, output, state, pos, number, current, calls, view,
                   overflowChecks>>

Next ==
    \/ Output
    \/ ScanBegin
    \/ ScanOperator
    \/ ScanWhitespace
    \/ ScanQ
    \/ ScanLetter
    \/ ScanUnknown
    \/ ScanDigit
    \/ LoopContinue
    \/ LoopBreak
    \/ LoopPanic
    \/ ScanEnd

Spec == Init /\ [][Next]_vars

\* the steps of scan() itself: once called it runs on, nothing suspends it
ScanStep ==
    \/ ScanOperator
    \/ ScanWhitespace
    \/ ScanQ
    \/ ScanLetter
    \/ ScanUnknown
    \/ ScanDigit
    \/ LoopContinue
    \/ LoopBreak
    \/ LoopPanic
    \/ ScanEnd

FairSpec == Spec /\ WF_vars(ScanStep)

TypeOK ==
    /\ input \in Inputs
    /\ state \in ScannerState
    /\ pc \in {"new", "while", "loop", "returned", "panicked"}
    /\ pos \in 0..Len(input)
    /\ number \in [1..4 -> 0..65535]
    /\ overflowChecks \in {"undetermined", "on", "off"}
    /\ calls \in 0..MaxScans
    /\ view \in {None, Some(output)}

\* the stepwise scan and the scan as a function agree
StepwiseIsScanTokens ==
    (pc = "returned" /\ calls = 1) => output = ScanTokens(input, 0)

----------------------------------------------------------------------------
(* What the claims speak of.                                               *)

\* the first scan() of the Scanner has returned
ScannedOnce == pc = "returned" /\ calls = 1

\* scan() is running
InScan == pc \in {"while", "loop"}

\* the main dispatch is about to take the character ch
Dispatching(ch) == AtChar /\ input[pos + 1] = ch

\* the four characters after the first p of inp spell the keyword
QuitAt(inp, p) ==
    /\ p + 4 <= Len(inp)
    /\ SubSeq(inp, p + 1, p + 4) = <<"q", "u", "i", "t">>

----------------------------------------------------------------------------
\* C1: a 'q' that does not start the word "quit" gives Variable('q') for
\* the q alone, and the dispatch goes on with the character right after it;
\* "qu" gives [Variable('q'), Variable('u')].
C1_QBackoff ==
    /\ [][(Dispatching("q") /\ ~QuitAt(input, pos))
            => /\ pos' = pos + 1
               /\ pc' = "while"
               /\ output' = Append(output, Variable("q"))]_vars
    /\ []((ScannedOnce /\ input = <<"q", "u">>)
            => output = <<Variable("q"), Variable("u")>>)

\* C2: a 'q' followed by 'u', 'i', 't' takes exactly these four characters
\* and gives exactly one Quit, the dispatch going on right after the 't';
\* "quit" gives [Quit] and "quits" gives [Quit, Variable('s')].
C2_QuitKeyword ==
    /\ [][(Dispatching("q") /\ QuitAt(input, pos))
            => /\ pos' = pos + 4
               /\ pc' = "while"
               /\ output' = Append(output, Quit)]_vars
    /\ [](ScannedOnce =>
            /\ input = <<"q", "u", "i", "t">> => output = <<Quit>>
            /\ input = <<"q", "u", "i", "t", "s">>
                    => output = <<Quit, Variable("s")>>)

C2_Witness ==
    /\ ScannedOnce
    /\ input = <<"q", "u", "i", "t", "s">>
    /\ output = <<Quit, Variable("s")>>

\* C3: all through the first scan of a Scanner the output holds at most as
\* many tokens as characters have been taken, so at most Len(input) at the
\* end; the empty text gives the empty output.
C3_TokensAtMostChars ==
    calls <= 1 =>
        /\ Len(output) <= pos
        /\ pos <= Len(input)
        /\ ScannedOnce => Len(output) <= Len(input)
        /\ input = <<>> => output = <<>>

C3_Witness ==
    /\ ScannedOnce
    /\ Len(input) = MaxLen
    /\ Len(output) = Len(input)

\* C4: a second scan() on the same Scanner is rejected or does nothing:
\* once the first scan has returned the output never changes again.
C4_SecondScanNoOp ==
    [][(calls >= 1 /\ (pc = "returned" \/ calls >= 2))
            => output' = output]_vars

\* C5: the state is Idle after construction, a scan in progress while
\* scan() runs and Done once scan() has returned.
C5_Lifecycle ==
    /\ pc = "new" => state = "Idle"
    /\ InScan => state \in {"CharMode", "IntMode", "QuitMode"}
    /\ pc = "returned" => state = "Done"

\* what every step of a running scan makes smaller
Measure == 2 * (Len(input) - pos) + (IF pc = "loop" THEN 1 ELSE 0)

\* C6: scan terminates.  The cursor never moves back or past the end (no
\* character is taken twice); every iteration of the main loop takes at
\* least one character, the 'q' arm at most three beyond the q; every
\* iteration of the digit loop takes a digit or leaves the loop; and the
\* pass ends exactly when all the characters have been taken.
C6_Terminates ==
    /\ [][InScan =>
            /\ pos <= pos' /\ pos' <= Len(input)
            /\ InScan' => Measure' < Measure
            /\ AtChar => pos < pos'
            /\ Dispatching("q") => pos' <= pos + 4
            /\ (AtChar /\ ~Dispatching("q")) => pos' = pos + 1
            /\ pc = "loop" => (pos' = pos + 1 \/ (pos' = pos /\ pc' = "while"))
            /\ pc' = "returned" <=> (pc = "while" /\ pos = Len(input))]_vars
    /\ [](pc = "returned" => pos = Len(input))
    /\ [](Measure >= 0)
    /\ InScan ~> (pc = "returned" /\ pos = Len(input))

C6_Witness ==
    /\ ScannedOnce
    /\ pos = Len(input)
    /\ input = <<"a", "q", "u", "i", "t", "3">>

\* the decimal digits and their values, as the language defines them
DecimalDigits == <<"0", "1", "2", "3", "4", "5", "6", "7", "8", "9">>
IsDecimalDigit(ch) == \E d \in 1..10 : DecimalDigits[d] = ch
DigitValue(ch) == (CHOOSE d \in 1..10 : DecimalDigits[d] = ch) - 1

\* the last position of the run of digits of inp that holds position i
RECURSIVE RunEnd(_, _)
RunEnd(inp, i) ==
    IF i < Len(inp) /\ IsDecimalDigit(inp[i + 1]) THEN RunEnd(inp, i + 1) ELSE i

\* a run of digits without its leading zeros ("0" for a run of zeros)
RECURSIVE Canonical(_)
Canonical(run) ==
    IF Len(run) > 1 /\ run[1] = "0" THEN Canonical(Tail(run)) ELSE run

\* the maximal runs of digits of inp from position i on, each canonical
RECURSIVE DigitRuns(_, _)
DigitRuns(inp, i) ==
    IF i > Len(inp) THEN <<>>
    ELSE IF IsDecimalDigit(inp[i])
         THEN LET j == RunEnd(inp, i)
              IN  <<Canonical(SubSeq(inp, i, j))>> \o DigitRuns(inp, j + 1)
         ELSE DigitRuns(inp, i + 1)

\* the decimal numeral a is at most the decimal numeral b of the same length
RECURSIVE NumeralLeq(_, _)
NumeralLeq(a, b) ==
    \/ a = <<>>
    \/ DigitValue(a[1]) < DigitValue(b[1])
    \/ a[1] = b[1] /\ NumeralLeq(Tail(a), Tail(b))

\* the value of the canonical run fits an i64: it is at most
\* 9223372036854775807
FitsI64(run) ==
    \/ Len(run) < Len(I64Max)
    \/ Len(run) = Len(I64Max) /\ NumeralLeq(run, I64Max)

\* the quotient and the remainder of the 64 bits x, read unsigned, by ten
DivMod10(x) ==
    LET t4 == x[4]
        t3 == (t4 % 10) * 65536 + x[3]
        t2 == (t3 % 10) * 65536 + x[2]
        t1 == (t2 % 10) * 65536 + x[1]
    IN  [quot |-> <<t1 \div 10, t2 \div 10, t3 \div 10, t4 \div 10>>,
         rem |-> t1 % 10]

\* the decimal numeral of the 64 bits x, read unsigned
RECURSIVE Numeral(_)
Numeral(x) ==
    LET d == DivMod10(x)
        last == <<DecimalDigits[d.rem + 1]>>
    IN  IF d.quot = I64(0) THEN last ELSE Numeral(d.quot) \o last

IsIntegerToken(t) == t.kind = "Integer"
IntegerValues(out) ==
    LET ints == SelectSeq(out, IsIntegerToken)
    IN  [k \in 1..Len(ints) |-> ints[k].value]

\* C7: every maximal run of decimal digits gives exactly one Integer token,
\* in the order of the runs, and the value of the token of a run that fits
\* an i64 is the decimal value of the run, leading zeros ignored; "123"
\* gives [Integer(123)] and "3+3" gives [Integer(3), Addition, Integer(3)].
C7_DigitRuns ==
    ScannedOnce =>
        /\ LET runs == DigitRuns(input, 1)
               values == IntegerValues(output)
           IN  /\ Len(values) = Len(runs)
               /\ \A k \in 1..Len(runs) :
                      FitsI64(runs[k]) => Numeral(values[k]) = runs[k]
        /\ input = <<"1", "2", "3">> => output = <<Integer(I64(123))>>
        /\ input = <<"3", "+", "3">>
                => output = <<Integer(I64(3)), Addition, Integer(I64(3))>>
        /\ input = I64Max
                => output = <<Integer(<<65535, 65535, 65535, 32767>>)>>

C7_Witness ==
    /\ ScannedOnce
    /\ input = <<"0", "0", "7", "\t", "1", "2", "\n", "9">>
    /\ output = <<Integer(I64(7)), Integer(I64(12)), Integer(I64(9))>>

\* the operator and punctuation characters and the token of each
IsOperatorChar(ch) == ch \in {"+", "-", "*", "/", "%", "^", "=", ";"}
TokenOfOperator(ch) ==
    Unit(CASE ch = "+" -> "Addition"
           [] ch = "-" -> "Subtraction"
           [] ch = "*" -> "Multiplication"
           [] ch = "/" -> "Division"
           [] ch = "%" -> "Modulus"
           [] ch = "^" -> "Exponent"
           [] ch = "=" -> "Assignment"
           [] ch = ";" -> "Terminator")
IsOperatorToken(t) ==
    t.kind \in {"Addition", "Subtraction", "Multiplication", "Division",
                "Modulus", "Exponent", "Assignment", "Terminator"}

\* C8: each of + - * / % ^ = ; takes exactly one character and gives exactly
\* its own token, whatever stands next to it: the operator tokens of the
\* output are those of the operator characters of the input, in order;
\* "+-*/%^=;" gives the eight tokens in that order.
C8_Operators ==
    /\ [][\A ch \in Chars : (IsOperatorChar(ch) /\ Dispatching(ch))
            => /\ pos' = pos + 1
               /\ pc' = "while"
               /\ output' = Append(output, TokenOfOperator(ch))]_vars
    /\ [](ScannedOnce =>
            /\ LET ops == SelectSeq(input, IsOperatorChar)
               IN  SelectSeq(output, IsOperatorToken)
                       = [k \in 1..Len(ops) |-> TokenOfOperator(ops[k])]
            /\ input = <<"+", "-", "*", "/", "%", "^", "=", ";">>
                    => output = <<Addition, Subtraction, Multiplication,
                                  Division, Modulus, Exponent, Assignment,
                                  Terminator>>)

C8_Witness ==
    /\ ScannedOnce
    /\ input = <<"+", "-", "*", "/", "%", "^", "=", ";">>
    /\ Len(output) = Len(input)
    /\ pos = Len(input)

IsWhitespaceChar(ch) == ch \in {" ", "\t", "\r", "\n"}

\* inp with the character w put in after its first k characters
InsertAt(inp, k, w) == SubSeq(inp, 1, k) \o <<w>> \o SubSeq(inp, k + 1, Len(inp))

\* the place after the first k characters of inp lies neither inside a run
\* of digits nor inside an occurrence of the keyword
BetweenTokens(inp, k) ==
    /\ k \in 0..Len(inp)
    /\ ~(k >= 1 /\ k < Len(inp)
            /\ IsDecimalDigit(inp[k]) /\ IsDecimalDigit(inp[k + 1]))
    /\ ~\E p \in 0..Len(inp) : QuitAt(inp, p) /\ p < k /\ k < p + 4

\* C9: a space, tab, carriage return or line feed takes one character and
\* gives no token, so a whitespace character put between two tokens (not
\* inside a run of digits, not inside the keyword) leaves the output as it
\* is; " a " gives [Variable('a')].
C9_Whitespace ==
    /\ [][\A ch \in Chars : (IsWhitespaceChar(ch) /\ Dispatching(ch))
            => /\ pos' = pos + 1
               /\ pc' = "while"
               /\ output' = output]_vars
    /\ [](ScannedOnce =>
            /\ \A k \in 0..Len(input) : \A w \in {" ", "\t", "\r", "\n"} :
                    BetweenTokens(input, k)
                        => ScanTokens(InsertAt(input, k, w), 0) = output
            /\ input = <<" ", "a", " ">> => output = <<Variable("a")>>)

LowercaseLetters ==
    {"a", "b", "c", "d", "e", "f", "g", "h", "i", "j", "k", "l", "m", "n",
     "o", "p", "q", "r", "s", "t", "u", "v", "w", "x", "y", "z"}

\* neither operator, '=', ';', whitespace, lowercase letter nor digit
IsUnrecognized(ch) ==
    /\ ~IsOperatorChar(ch)
    /\ ~IsWhitespaceChar(ch)
    /\ ch \notin LowercaseLetters
    /\ ~IsDecimalDigit(ch)

IsUnknownToken(t) == t.kind = "Unknown"

ToLower(ch) ==
    CASE ch = "A" -> "a"
      [] ch = "Q" -> "q"
      [] ch = "U" -> "u"
      [] ch = "I" -> "i"
      [] ch = "T" -> "t"
      [] OTHER -> ch

LowerCased(inp) == [k \in 1..Len(inp) |-> ToLower(inp[k])]

Kinds(out) == [k \in 1..Len(out) |-> out[k].kind]

\* C11: the scanner ignores case: an uppercase letter is recognised as a
\* Variable and "quit" in any letter case as Quit, so a text and the same
\* text in lowercase give tokens of the same kinds.
C11_IgnoresCase ==
    ScannedOnce =>
        /\ Kinds(output) = Kinds(ScanTokens(LowerCased(input), 0))
        /\ input = <<"A">> => Kinds(output) = <<"Variable">>
        /\ input = <<"Q", "U", "I", "T">> => output = <<Quit>>
        /\ input = <<"Q", "u", "i", "t">> => output = <<Quit>>

\* C13: reading the tokens of a constructed Scanner before scan() has been
\* invoked gives the empty sequence: as long as no scan has started the
\* state is Idle, the output is empty and output() shows the empty vector.
C13_EmptyBeforeScan ==
    (pc = "new" \/ state = "Idle" \/ calls = 0) =>
        /\ pc = "new" /\ state = "Idle" /\ calls = 0
        /\ output = <<>>
        /\ view \in {None, Some(<<>>)}

C13_Witness ==
    /\ pc = "new"
    /\ Len(input) = MaxLen
    /\ view = Some(<<>>)

\* the letters the 'q' arm looks for after the q
KeywordTail == <<"u", "i", "t">>

\* how far behind a q at position p + 1 of inp the word "quit" breaks off:
\* the first of the three places after it that does not hold its letter
MismatchOffset(inp, p) ==
    CHOOSE j \in 1..3 :
        /\ Peek(inp, p + j) # Some(KeywordTail[j])
        /\ \A i \in 1..(j - 1) : Peek(inp, p + i) = Some(KeywordTail[i])

\* C14: the character at which the match against "quit" fails is only
\* peeked at, never taken by the 'q' arm: after the arm the cursor stands
\* right before it, so the next iteration of the main dispatch classifies
\* it; "qx" gives [Variable('q'), Variable('x')] and "q+" gives
\* [Variable('q'), Addition].
C14_MismatchOnlyPeeked ==
    /\ [][(Dispatching("q") /\ ~QuitAt(input, pos))
            => /\ pos' = pos + MismatchOffset(input, pos)
               /\ pc' = "while"
               /\ output' = Append(output, Variable("q"))]_vars
    /\ [](ScannedOnce =>
            /\ input = <<"q", "x">> => output = <<Variable("q"), Variable("x")>>
            /\ input = <<"q", "+">> => output = <<Variable("q"), Addition>>
            /\ input = <<"q", "u", "+">> => output = <<Variable("q"), Addition>>
            /\ input = <<"q", " ", "3">>
                    => output = <<Variable("q"), Integer(I64(3))>>)

C14_Witness ==
    /\ ScannedOnce
    /\ input = <<"q", "u", "i", "q", "u", "i", "t">>
    /\ output = <<Variable("q"), Quit>>

\* C15: a run of digits whose value is past the range of an i64 does not
\* abort the scan: the scan never panics, it gives the one Integer token
\* of the value reduced modulo 2^64 and goes on; 2^63 gives the bits of
\* -2^63, 2^64 gives 0, 2^64 + 5 before a '+' gives 5 and Addition, and
\* twenty nines give 10^20 - 1 - 5 * 2^64.
C15_WrapsSilently ==
    /\ pc # "panicked"
    /\ ScannedOnce =>
        /\ input = I64MaxPlus1 => output = <<Integer(<<0, 0, 0, 32768>>)>>
        /\ input = TwoTo64 => output = <<Integer(I64(0))>>
        /\ input = TwoTo64Plus5 \o <<"+">>
                => output = <<Integer(I64(5)), Addition>>
        /\ input = TwentyNines
                => output = <<Integer(<<65535, 25359, 24109, 27591>>)>>

\* s is the front of t
IsPrefix(s, t) == Len(s) <= Len(t) /\ SubSeq(t, 1, Len(s)) = s

\* the characters a token can begin with
FirstChars(t) ==
    IF t.kind \in {"Variable", "Unknown"} THEN {t.ch}
    ELSE IF t.kind = "Integer" THEN {ch \in Chars : IsDecimalDigit(ch)}
    ELSE IF t.kind = "Quit" THEN {"q"}
    ELSE {ch \in Chars : IsOperatorChar(ch) /\ TokenOfOperator(ch) = t}

\* the tokens of out begin at rising positions of inp behind position i,
\* each taken at the first place it can begin at
RECURSIVE BeginInOrder(_, _, _)
BeginInOrder(out, inp, i) ==
    \/ out = <<>>
    \/ /\ \E j \in (i + 1)..Len(inp) : inp[j] \in FirstChars(out[1])
       /\ LET j == CHOOSE j \in (i + 1)..Len(inp) :
                       /\ inp[j] \in FirstChars(out[1])
                       /\ \A k \in (i + 1)..(j - 1) :
                              inp[k] \notin FirstChars(out[1])
          IN  BeginInOrder(Tail(out), inp, j)

\* C16: the output only grows at its end, one token a step, so the output
\* of a step is the front of the output of every later step; a token
\* pushed by the main dispatch begins with the character just taken, a
\* token pushed by the digit loop is the Integer of the run just read;
\* and the tokens of a finished scan begin at rising positions of the
\* input.
C16_AppendOnly ==
    /\ [][/\ IsPrefix(output, output')
          /\ Len(output') <= Len(output) + 1
          /\ (AtChar /\ output' # output)
                => input[pos + 1] \in FirstChars(output'[Len(output')])
          /\ (pc = "loop" /\ output' # output)
                => /\ output'[Len(output')].kind = "Integer"
                   /\ IsDecimalDigit(input[pos])]_vars
    /\ [](ScannedOnce => BeginInOrder(output, input, 0))

C16_Witness ==
    /\ ScannedOnce
    /\ input = MainProgram
    /\ Len(output) = 14
    /\ output[4] = Terminator
    /\ output[5] = Quit

\* the states of a scan in progress
InProgress == {"CharMode", "IntMode", "QuitMode"}

\* C17: the state only moves forward: once it has left Idle it never is
\* Idle again, and once it is Done it stays Done, whatever scan() and
\* output() calls follow.
C17_ForwardOnly ==
    [][/\ state # "Idle" => state' # "Idle"
       /\ state = "Done" => state' = "Done"
       /\ state' # state => (state = "Idle" \/ state' = "Done")]_vars

C17_Witness ==
    /\ calls = 2
    /\ pc = "returned"
    /\ view = Some(output)
    /\ state \in InProgress

\* the input without its whitespace
IsNotWhitespace(ch) == ~IsWhitespaceChar(ch)
Stripped(inp) == SelectSeq(inp, IsNotWhitespace)

\* str falls into consecutive segments, one for each token of out in
\* order: the character of an operator, a Variable or an Unknown, the four
\* letters of a Quit, one or more digits of an Integer
RECURSIVE Partitions(_, _)
Partitions(str, out) ==
    IF out = <<>> THEN str = <<>>
    ELSE LET t == out[1]
             rest(k) == SubSeq(str, k + 1, Len(str))
         IN  IF t.kind = "Integer"
             THEN \E k \in 1..Len(str) :
                    /\ \A i \in 1..k : IsDecimalDigit(str[i])
                    /\ Partitions(rest(k), Tail(out))
             ELSE IF t.kind = "Quit"
             THEN /\ QuitAt(str, 0)
                  /\ Partitions(rest(4), Tail(out))
             ELSE /\ str # <<>>
                  /\ str[1] \in FirstChars(t)
                  /\ Partitions(rest(1), Tail(out))

\* C18: no character is dropped: after one scan the input without its
\* whitespace falls into consecutive segments, one for each token of the
\* output in order.
C18_NothingDropped ==
    ScannedOnce => Partitions(Stripped(input), output)

\* how often "quit" stands in inp, and how many Quit tokens out holds
Occurrences(inp) == Cardinality({p \in 0..Len(inp) : QuitAt(inp, p)})
IsQuitToken(t) == t.kind = "Quit"
QuitTokens(out) == Len(SelectSeq(out, IsQuitToken))

====
